---- MODULE Spec2Model ----
(***************************************************************************)
(* State-machine model of the sevenseg driver of lcdproc                   *)
(* (server/drivers/sevenseg-drivers.h): the i2c connection type that       *)
(* drives an HD44780 controller in 4-bit mode through an 8-bit port        *)
(* expander, the seven-segment flip transform, and the text part of the    *)
(* driver that keeps a framebuffer of width x height characters.           *)
(*                                                                         *)
(* Every handler of the driver is one action.  The bus, the pause          *)
(* function, the report function and common_init are observed through      *)
(* `bus`, the sequence of events the most recent handler call produced.    *)
(***************************************************************************)
EXTENDS Integers, Sequences, FiniteSets, TLC

VARIABLES
    p,                  \* PrivateData of the i2c connection
    functions,          \* sevenseg_functions: "none", or "i2c" once installed
    no_more_errormsgs,  \* the static latch of i2c_out
    bus,                \* events of the most recent handler call
    call,               \* the most recent handler call: op, arguments, return
    sessions,           \* number of sevenseg_init_i2c calls so far
    seg,                \* flip_seg7 harness: input, current value, applications
    drv,                \* PrivateData of the text driver: width, height, framebuf
    tcall               \* the most recent text-driver call: op, arguments, return

vars == <<p, functions, no_more_errormsgs, bus, call, sessions, seg, drv, tcall>>

----------------------------------------------------------------------------
(* Bounds of the model *)

\* at most this many sevenseg_init_i2c calls in one behaviour
MaxSessions == 2
\* at most this many applications of flip_seg7 to one input (SpecFlip)
MaxFlips == 2

----------------------------------------------------------------------------
(* unsigned char arithmetic *)

Byte == 0..255

\* a & b, bit by bit
RECURSIVE And8(_, _)
And8(a, b) ==
    IF a = 0 \/ b = 0 THEN 0
    ELSE (a % 2) * (b % 2) + 2 * And8(a \div 2, b \div 2)

\* the table of a & b over unsigned char, computed once
AndTable == [a \in Byte |-> [b \in Byte |-> And8(a, b)]]

BitAnd(a, b) == AndTable[a][b]

BitOr(a, b) == a + b - BitAnd(a, b)

\* C truth value of (v & mask)
Test(v, mask) == BitAnd(v, mask) # 0

----------------------------------------------------------------------------
(* Configuration: the fields of PrivateData the handlers only read *)

\* Pin maps of the port expander: every line is one distinct bit.
\* The first is the wiring of the lcdproc i2c default, the second the
\* wiring of the common PCF8574 backpack.
PinMaps ==
    { [EN |-> 64, RS |-> 16, BL |-> 128, D4 |-> 1,  D5 |-> 2,  D6 |-> 4,  D7 |-> 8],
      [EN |-> 4,  RS |-> 1,  BL |-> 8,   D4 |-> 16, D5 |-> 32, D6 |-> 64, D7 |-> 128] }

\* PrivateData after the configuration was read and before sevenseg_init_i2c
Config(pins, invert, hasPin, delay) ==
    [ i2c                  |-> "NULL",
      i2c_line_EN          |-> pins.EN,
      i2c_line_RS          |-> pins.RS,
      i2c_line_BL          |-> pins.BL,
      i2c_line_D4          |-> pins.D4,
      i2c_line_D5          |-> pins.D5,
      i2c_line_D6          |-> pins.D6,
      i2c_line_D7          |-> pins.D7,
      i2c_backlight_invert |-> invert,
      backlight_pin        |-> hasPin,
      delayBus             |-> delay,
      backlight_bit        |-> 0 ]

have_backlight_pin(q) == q.backlight_pin

----------------------------------------------------------------------------
(* Events on the collaborators.  One record shape for all of them:         *)
(*   k    the collaborator that was called                                 *)
(*   v    its numeric argument (port byte, microseconds)                   *)
(*   ok   its outcome (acknowledged write, successful open)                *)
(*   tag  its symbolic argument (report level, interface width)            *)
(*   ret  for a write: what i2c_out handed back to its caller              *)

Ev(k, v) == [k |-> k, v |-> v, ok |-> TRUE, tag |-> "-", ret |-> "void"]

IsWrite(e) == e.k = "i2c_write_no_ack"
IsPause(e) == e.k = "uPause"
IsDrvReport(e) == e.k = "drv_report"

\* A running handler: the events so far, the latch, the acknowledgements
\* the bus will give to the writes still to come.
Run(acks) == [bus |-> <<>>, nme |-> no_more_errormsgs, acks |-> acks]

\* Every acknowledgement pattern of n writes
RECURSIVE AllAcks(_)
AllAcks(n) ==
    IF n = 0 THEN { <<>> }
    ELSE { <<b>> \o a : b \in BOOLEAN, a \in AllAcks(n - 1) }

AllAcks12 == AllAcks(12)

\* The patterns of n writes during which the device changes at most once
\* between answering and not answering: acknowledged throughout, lost
\* throughout, lost from some write on, acknowledged from some write on.
Flaps(n) ==
    { [i \in 1..n |-> (i < c) = first] : c \in 2..(n + 1), first \in BOOLEAN }

----------------------------------------------------------------------------
(* i2c_out: one write of one byte to the expander port *)

\* the failure report of i2c_out
drv_report(m, val) ==
    [ Ev("drv_report", val) EXCEPT !.tag = IF m.nme THEN "RPT_DEBUG" ELSE "RPT_ERR" ]

i2c_write_no_ack(m, val) == [ Ev("i2c_write_no_ack", val) EXCEPT !.ok = Head(m.acks) ]

\* a write that was not acknowledged is attempted once more
i2c_out_retry(m, val) ==
    LET w == i2c_write_no_ack(m, val)
    IN  IF ~w.ok
        THEN [ bus  |-> m.bus \o << w, w, drv_report(m, val) >>,
               nme  |-> TRUE,
               acks |-> Tail(m.acks) ]
        ELSE [ m EXCEPT !.bus = Append(@, w), !.acks = Tail(@) ]

\* the latch is never set
i2c_out_nolatch(m, val) ==
    LET w == i2c_write_no_ack(m, val)
    IN  IF ~w.ok
        THEN [ m EXCEPT !.bus = @ \o << w, drv_report(m, val) >>, !.acks = Tail(@) ]
        ELSE [ m EXCEPT !.bus = Append(@, w), !.acks = Tail(@) ]

i2c_out(m, val) ==
    LET w == i2c_write_no_ack(m, val)
    IN  IF ~w.ok
        THEN [ bus  |-> m.bus \o << w, drv_report(m, val) >>,
               nme  |-> TRUE,
               acks |-> Tail(m.acks) ]
        ELSE [ m EXCEPT !.bus = Append(@, w), !.acks = Tail(@) ]

uPause(m, usecs) == [ m EXCEPT !.bus = Append(@, Ev("uPause", usecs)) ]

\* if (p->delayBus) uPause(p, 1);
delay(q, m) == IF q.delayBus THEN uPause(m, 1) ELSE m

report(m, level) == [ m EXCEPT !.bus = Append(@, [Ev("report", 0) EXCEPT !.tag = level]) ]

i2c_open(m, opened) == [ m EXCEPT !.bus = Append(@, [Ev("i2c_open", 0) EXCEPT !.ok = opened]) ]

common_init(m, if_bit) ==
    [ m EXCEPT !.bus = Append(@, [Ev("common_init", 0) EXCEPT !.tag = if_bit]) ]

\* i2c_close on a handle that is valid (open) or not
i2c_close(m, valid) == [ m EXCEPT !.bus = Append(@, [Ev("i2c_close", 0) EXCEPT !.ok = valid]) ]

----------------------------------------------------------------------------
(* sevenseg_init_i2c *)

\* (FUNCSET | IF_8BIT) >> 4 on the data lines
D4D5(q) == BitOr(q.i2c_line_D4, q.i2c_line_D5)

\* One power-up pulse: enable raised over D4|D5, enable dropped, then the
\* wait the controller needs.  The code writes it out four times.
ResetPulse(q, m, usecs) ==
    LET m1 == delay(q, i2c_out(m, BitOr(q.i2c_line_EN, D4D5(q))))
    IN  uPause(i2c_out(m1, D4D5(q)), usecs)

\* The switch to 4-bit mode: D5 alone, pulsed once
ModeSwitch(q, m) ==
    LET m1 == delay(q, i2c_out(m,  q.i2c_line_D5))
        m2 == delay(q, i2c_out(m1, BitOr(q.i2c_line_EN, q.i2c_line_D5)))
    IN  uPause(i2c_out(m2, q.i2c_line_D5), 100)

\* power-up with three reset pulses, the documented minimum
PowerUp_three(q, m) ==
    LET m1 == delay(q, i2c_out(m, D4D5(q)))
        m2 == ResetPulse(q, m1, 15000)
        m3 == ResetPulse(q, m2, 5000)
        m4 == ResetPulse(q, m3, 100)
    IN  ModeSwitch(q, m4)

\* the writes and waits of a successful open, up to the hand-off
PowerUp(q, m) ==
    LET m1 == delay(q, i2c_out(m, D4D5(q)))
        m2 == ResetPulse(q, m1, 15000)
        m3 == ResetPulse(q, m2, 5000)
        m4 == ResetPulse(q, m3, 100)
        m5 == ResetPulse(q, m4, 100)
    IN  ModeSwitch(q, m5)

InitFailed(q, m) ==
    [ p |-> [q EXCEPT !.i2c = "NULL"], m |-> report(m, "RPT_ERR"),
      functions |-> "none", ret |-> -1 ]

InitDone(q, m) ==
    [ p |-> [q EXCEPT !.i2c = "open"], m |-> common_init(m, "IF_4BIT"),
      functions |-> "i2c", ret |-> 0 ]

\* the open result is not looked at before the bus is used
sevenseg_init_i2c_unchecked(q, m, opened) ==
    LET m0 == i2c_open(report(m, "RPT_INFO"), opened)
        \* no write on a null handle is acknowledged
        m1 == PowerUp(q, IF opened THEN m0 ELSE [m0 EXCEPT !.acks = [i \in 1..12 |-> FALSE]])
    IN  IF ~opened THEN InitFailed(q, m1) ELSE InitDone(q, m1)

\* a write that was not acknowledged aborts the initialization
sevenseg_init_i2c_abort(q, m, opened) ==
    LET m0 == i2c_open(report(m, "RPT_INFO"), opened)
        m1 == PowerUp(q, m0)
    IN  IF ~opened THEN InitFailed(q, m0)
        ELSE IF \E i \in 1..Len(m1.bus) : IsWrite(m1.bus[i]) /\ ~m1.bus[i].ok
             THEN [InitDone(q, m1) EXCEPT !.ret = -1]
             ELSE InitDone(q, m1)

\* the hand-off to common_init comes before the power-up sequence
sevenseg_init_i2c_early(q, m, opened) ==
    LET m0 == i2c_open(report(m, "RPT_INFO"), opened)
    IN  IF ~opened THEN InitFailed(q, m0)
        ELSE [InitDone(q, m0) EXCEPT !.m = PowerUp(q, @)]

sevenseg_init_i2c(q, m, opened) ==
    LET m0 == i2c_open(report(m, "RPT_INFO"), opened)
    IN  IF ~opened THEN InitFailed(q, m0) ELSE InitDone(q, PowerUp(q, m0))

----------------------------------------------------------------------------
(* i2c_sevenseg_close *)

\* p->i2c is a pointer: (p->i2c >= 0) holds for every value of it
i2c_sevenseg_close(q, m) ==
    [ p |-> [q EXCEPT !.i2c = IF @ = "NULL" THEN "NULL" ELSE "freed"],
      m |-> i2c_close(m, q.i2c = "open") ]

----------------------------------------------------------------------------
(* i2c_sevenseg_senddata *)

\* if (ch & bit) x |= line;
OrIf(x, ch, bit, line) == IF Test(ch, bit) THEN BitOr(x, line) ELSE x

\* the high nibble of ch on the data lines
HighNibble(q, ch) ==
    LET h1 == OrIf(0,  ch, 128, q.i2c_line_D7)
        h2 == OrIf(h1, ch, 64,  q.i2c_line_D6)
        h3 == OrIf(h2, ch, 32,  q.i2c_line_D5)
    IN  OrIf(h3, ch, 16, q.i2c_line_D4)

\* the low nibble with 0x02 and 0x01 exchanged
LowNibble_typo(q, ch) ==
    LET l1 == OrIf(0,  ch, 8, q.i2c_line_D7)
        l2 == OrIf(l1, ch, 4, q.i2c_line_D6)
        l3 == OrIf(l2, ch, 1, q.i2c_line_D5)
    IN  OrIf(l3, ch, 2, q.i2c_line_D4)

\* the low nibble of ch on the same data lines
LowNibble(q, ch) ==
    LET l1 == OrIf(0,  ch, 8, q.i2c_line_D7)
        l2 == OrIf(l1, ch, 4, q.i2c_line_D6)
        l3 == OrIf(l2, ch, 2, q.i2c_line_D5)
    IN  OrIf(l3, ch, 1, q.i2c_line_D4)

\* register select is raised for instructions instead of data
PortControl_rsInstr(q, flags) ==
    LET portControl == IF flags = "RS_INSTR" THEN q.i2c_line_RS ELSE 0
    IN  BitOr(portControl, q.backlight_bit)

\* the backlight bit is left out of the port byte
PortControl_noBL(q, flags) == IF flags = "RS_INSTR" THEN 0 ELSE q.i2c_line_RS

\* register select and backlight
PortControl(q, flags) ==
    LET portControl == IF flags = "RS_INSTR" THEN 0 ELSE q.i2c_line_RS
    IN  BitOr(portControl, q.backlight_bit)

\* the last write of the pulse leaves enable high
Pulse_noFall(q, m, val) ==
    LET m1 == delay(q, i2c_out(m,  val))
        m2 == delay(q, i2c_out(m1, BitOr(q.i2c_line_EN, val)))
    IN  i2c_out(m2, BitOr(q.i2c_line_EN, val))

\* a settle pause after the falling edge as well
Pulse_pauseAfterFall(q, m, val) ==
    LET m1 == delay(q, i2c_out(m,  val))
        m2 == delay(q, i2c_out(m1, BitOr(q.i2c_line_EN, val)))
    IN  delay(q, i2c_out(m2, val))

\* One nibble: the port byte with enable low, high, low.  The code writes
\* it out twice, for h and for l.
Pulse(q, m, val) ==
    LET m1 == delay(q, i2c_out(m,  val))
        m2 == delay(q, i2c_out(m1, BitOr(q.i2c_line_EN, val)))
    IN  i2c_out(m2, val)

i2c_sevenseg_senddata(q, m, flags, ch) ==
    LET h == HighNibble(q, ch)
        l == LowNibble(q, ch)
        portControl == PortControl(q, flags)
        m1 == Pulse(q, m, BitOr(portControl, h))
    IN  Pulse(q, m1, BitOr(portControl, l))

----------------------------------------------------------------------------
(* i2c_sevenseg_backlight *)

\* the display is taken to have a backlight pin
i2c_sevenseg_backlight_anyPin(q, m, state) ==
    LET bit == IF q.i2c_backlight_invert = 0
               THEN (IF state # 0 THEN 0 ELSE q.i2c_line_BL)
               ELSE (IF state # 0 THEN q.i2c_line_BL ELSE 0)
    IN  [ p |-> [q EXCEPT !.backlight_bit = bit], m |-> i2c_out(m, bit) ]

\* the bit follows the requested state when not inverted
i2c_sevenseg_backlight_swapped(q, m, state) ==
    LET bit == IF q.i2c_backlight_invert = 0
               THEN (IF have_backlight_pin(q) /\ state # 0 THEN q.i2c_line_BL ELSE 0)
               ELSE (IF ~have_backlight_pin(q) \/ state # 0 THEN 0 ELSE q.i2c_line_BL)
    IN  [ p |-> [q EXCEPT !.backlight_bit = bit], m |-> i2c_out(m, bit) ]

i2c_sevenseg_backlight(q, m, state) ==
    LET bit == IF q.i2c_backlight_invert = 0
               THEN (IF ~have_backlight_pin(q) \/ state # 0 THEN 0 ELSE q.i2c_line_BL)
               ELSE (IF have_backlight_pin(q) /\ state # 0 THEN q.i2c_line_BL ELSE 0)
    IN  [ p |-> [q EXCEPT !.backlight_bit = bit], m |-> i2c_out(m, bit) ]

----------------------------------------------------------------------------
(* flip_seg7 *)

BIT_SEG7_A == 0
BIT_SEG7_B == 1
BIT_SEG7_C == 2
BIT_SEG7_D == 3
BIT_SEG7_E == 4
BIT_SEG7_F == 5
BIT_SEG7_G == 6

\* val & 1 << from ? 1 << to : 0
Move(val, from, to) == IF Test(val, 2^from) THEN 2^to ELSE 0

\* the centre segment is not carried over
flip_seg7_noG(val) ==
    LET f1 == BitOr(0,  Move(val, BIT_SEG7_A, BIT_SEG7_D))
        f2 == BitOr(f1, Move(val, BIT_SEG7_B, BIT_SEG7_E))
        f3 == BitOr(f2, Move(val, BIT_SEG7_C, BIT_SEG7_F))
        f4 == BitOr(f3, Move(val, BIT_SEG7_D, BIT_SEG7_A))
        f5 == BitOr(f4, Move(val, BIT_SEG7_E, BIT_SEG7_B))
    IN  BitOr(f5, Move(val, BIT_SEG7_F, BIT_SEG7_C))

\* segment D lands on B instead of A
flip_seg7_typo(val) ==
    LET f1 == BitOr(0,  Move(val, BIT_SEG7_A, BIT_SEG7_D))
        f2 == BitOr(f1, Move(val, BIT_SEG7_B, BIT_SEG7_E))
        f3 == BitOr(f2, Move(val, BIT_SEG7_C, BIT_SEG7_F))
        f4 == BitOr(f3, Move(val, BIT_SEG7_D, BIT_SEG7_B))
        f5 == BitOr(f4, Move(val, BIT_SEG7_E, BIT_SEG7_B))
        f6 == BitOr(f5, Move(val, BIT_SEG7_F, BIT_SEG7_C))
    IN  BitOr(f6, BitAnd(val, 2^BIT_SEG7_G))

flip_seg7(val) ==
    LET f1 == BitOr(0,  Move(val, BIT_SEG7_A, BIT_SEG7_D))
        f2 == BitOr(f1, Move(val, BIT_SEG7_B, BIT_SEG7_E))
        f3 == BitOr(f2, Move(val, BIT_SEG7_C, BIT_SEG7_F))
        f4 == BitOr(f3, Move(val, BIT_SEG7_D, BIT_SEG7_A))
        f5 == BitOr(f4, Move(val, BIT_SEG7_E, BIT_SEG7_B))
        f6 == BitOr(f5, Move(val, BIT_SEG7_F, BIT_SEG7_C))
    IN  BitOr(f6, BitAnd(val, 2^BIT_SEG7_G))

----------------------------------------------------------------------------
(* The actions: one per handler *)

NoCall == [op |-> "none", flags |-> "-", arg |-> 0, ret |-> 0]
NoSeg  == [in |-> 0, val |-> 0, n |-> 0]

\* the host loads a session only when none is live
CanInit == p.i2c # "open" /\ sessions < MaxSessions

\* the host calls senddata, backlight and close through the installed pointers
Live == functions = "i2c" /\ p.i2c = "open"

\* sevenseg_init_i2c on the PrivateData of a new session
InitI2C(opened, acks) ==
    /\ CanInit
    /\ LET fresh == [p EXCEPT !.i2c = "NULL", !.backlight_bit = 0]
           r == sevenseg_init_i2c(fresh, Run(acks), opened)
       IN  /\ p' = r.p
           /\ functions' = r.functions
           /\ bus' = r.m.bus
           /\ no_more_errormsgs' = r.m.nme
           /\ call' = [op |-> "init", flags |-> "-", arg |-> 0, ret |-> r.ret]
    /\ sessions' = sessions + 1
    /\ UNCHANGED <<seg, drv, tcall>>

SendData(flags, ch, acks) ==
    /\ Live
    /\ LET m == i2c_sevenseg_senddata(p, Run(acks), flags, ch)
       IN  /\ bus' = m.bus
           /\ no_more_errormsgs' = m.nme
    /\ call' = [op |-> "senddata", flags |-> flags, arg |-> ch, ret |-> 0]
    /\ UNCHANGED <<p, functions, sessions, seg, drv, tcall>>

Backlight(state, acks) ==
    /\ Live
    /\ LET r == i2c_sevenseg_backlight(p, Run(acks), state)
       IN  /\ p' = r.p
           /\ bus' = r.m.bus
           /\ no_more_errormsgs' = r.m.nme
    /\ call' = [op |-> "backlight", flags |-> "-", arg |-> state, ret |-> 0]
    /\ UNCHANGED <<functions, sessions, seg, drv, tcall>>

Close ==
    /\ Live
    /\ LET r == i2c_sevenseg_close(p, Run(<<>>))
       IN  /\ p' = r.p
           /\ bus' = r.m.bus
           /\ no_more_errormsgs' = r.m.nme
    /\ call' = [op |-> "close", flags |-> "-", arg |-> 0, ret |-> 0]
    /\ UNCHANGED <<functions, sessions, seg, drv, tcall>>

\* one application of flip_seg7 to the value at hand
Flip ==
    /\ seg.n < MaxFlips
    /\ seg' = [seg EXCEPT !.val = flip_seg7(@), !.n = @ + 1]
    /\ UNCHANGED <<p, functions, no_more_errormsgs, bus, call, sessions, drv, tcall>>

----------------------------------------------------------------------------
(* The text part of the driver: a framebuffer of width x height characters *)

\* lcd.h: the largest display the server core handles
LCD_MAX_WIDTH == 256
LCD_MAX_HEIGHT == 256
\* SEVENSEG_DEFAULT_SIZE "20x4"
DefaultWidth == 20
DefaultHeight == 4

\* the range of the C type int
INT_MAX == 2147483647
INT_MIN == (-INT_MAX) - 1

\* characters are their ASCII codes
Space == 32
ChrA == 65
Digit(i) == 48 + i

\* at most this many characters in a string handed to sevenseg_string
MaxStrLen == 4
\* at most this many sevenseg_chr/sevenseg_string calls between two clears
MaxWrites == 1

\* SEG7_DEFAULT_MAP(map_seg7): the entries of the default table the model uses
map_seg7 == (Space :> 0) @@ (ChrA :> 119) @@ (Digit(1) :> 6) @@ (Digit(2) :> 91)
            @@ (Digit(3) :> 79) @@ (Digit(4) :> 102)

\* table lookup; a character absent from the table is blank
map_to_seg7(c) == IF c \in DOMAIN map_seg7 THEN map_seg7[c] ELSE 0

\* the text driver before sevenseg_init: no private data
\* (ready: sevenseg_init has returned 0; writes: characters and strings
\* written since the framebuffer was last blank)
NoDrv == [width |-> 0, height |-> 0, framebuf |-> <<>>, ready |-> FALSE, writes |-> 0]
NoText == [op |-> "none", x |-> 0, y |-> 0, s |-> <<>>, ret |-> 0, killed |-> FALSE]

\* memset(p->framebuf, ' ', p->width * p->height)
Blank(w, h) == [i \in 1..(w * h) |-> Space]

\* x-- on an int: at INT_MIN the decrement overflows, which a build either
\* wraps to INT_MAX or folds into the comparisons that follow, which then see
\* a number below every column and row (INT_MIN stands for it)
Dec(x, wraps) == IF x = INT_MIN THEN (IF wraps THEN INT_MAX ELSE INT_MIN) ELSE x - 1

\* p->framebuf[idx] = c, on a framebuffer of Len(fb) cells
Store(fb, idx, c) == IF idx \in 0..(Len(fb) - 1) THEN [fb EXCEPT ![idx + 1] = c] ELSE fb

\* what a text-driver call returns: the private data and the events it produced
Txt(d, evs) == [d |-> d, bus |-> evs]

\* the Size setting as sscanf("%dx%d") reads it: fields converted, the values
SizeOf(n, w, h) == [n |-> n, w |-> w, h |-> h]

\* the size sevenseg_init chooses
ChooseSize(reqW, reqH, size) ==
    IF reqW > 0 /\ reqH > 0
    THEN [w |-> reqW, h |-> reqH, warn |-> FALSE]
    ELSE IF size.n # 2 \/ size.w <= 0 \/ size.w > LCD_MAX_WIDTH
                       \/ size.h <= 0 \/ size.h > LCD_MAX_HEIGHT
         THEN [w |-> DefaultWidth, h |-> DefaultHeight, warn |-> TRUE]
         ELSE [w |-> size.w, h |-> size.h, warn |-> FALSE]

ConnectionTypes == {"i2c", "spi"}

sevenseg_init(reqW, reqH, size, ctype, privOk, fbOk) ==
    LET c == ChooseSize(reqW, reqH, size)
        sized == [NoDrv EXCEPT !.width = c.w, !.height = c.h]
        warn == IF c.warn THEN <<[Ev("report", 0) EXCEPT !.tag = "RPT_WARNING"]>> ELSE <<>>
    IN  IF ~privOk
        THEN [d |-> NoDrv, bus |-> <<>>, ret |-> -1]
        ELSE IF ctype \notin ConnectionTypes
        THEN [d |-> sized, bus |-> warn \o <<[Ev("report", 0) EXCEPT !.tag = "RPT_ERR"]>>,
              ret |-> -1]
        ELSE IF ~fbOk
        THEN [d |-> sized,
              bus |-> warn \o <<[Ev("report", 0) EXCEPT !.tag = "RPT_INFO"],
                                [Ev("report", 0) EXCEPT !.tag = "RPT_ERR"]>>,
              ret |-> -1]
        ELSE [d |-> [sized EXCEPT !.framebuf = Blank(c.w, c.h), !.ready = TRUE],
              bus |-> warn \o <<[Ev("report", 0) EXCEPT !.tag = "RPT_INFO"],
                                [Ev("report", 0) EXCEPT !.tag = "RPT_DEBUG"]>>,
              ret |-> 0]

sevenseg_clear(d) ==
    Txt([d EXCEPT !.framebuf = Blank(d.width, d.height)], <<>>)

\* sevenseg_chr without the test of the right border
sevenseg_chr_noRight(d, x0, y0, c, wraps) ==
    LET y == Dec(y0, wraps)
        x == Dec(x0, wraps)
        idx == y * d.width + x
        out == <<Ev("printf", c)>>
    IN  IF x >= 0 /\ y >= 0 /\ y < d.height
        THEN Txt([d EXCEPT !.framebuf = Store(@, idx, c)], <<Ev("framebuf[]=", idx)>> \o out)
        ELSE Txt(d, out)

sevenseg_chr(d, x0, y0, c, wraps) ==
    LET y == Dec(y0, wraps)
        x == Dec(x0, wraps)
        idx == y * d.width + x
        out == <<Ev("printf", c)>>
    IN  IF x >= 0 /\ y >= 0 /\ x < d.width /\ y < d.height
        THEN Txt([d EXCEPT !.framebuf = Store(@, idx, c)], <<Ev("framebuf[]=", idx)>> \o out)
        ELSE Txt(d, out)

\* the loop of sevenseg_string from character i on, the column being x
RECURSIVE StringLoop(_, _, _, _, _)
StringLoop(r, y, string, i, x) ==
    IF i > Len(string) \/ ~(x < r.d.width)
    THEN r
    ELSE LET idx == y * r.d.width + x
             stored == IF x >= 0
                       THEN Txt([r.d EXCEPT !.framebuf = Store(@, idx, string[i])],
                                Append(r.bus, Ev("framebuf[]=", idx)))
                       ELSE r
         IN  StringLoop(stored, y, string, i + 1, x + 1)

sevenseg_string(d, x0, y0, string, wraps) ==
    LET x == Dec(x0, wraps)
        y == Dec(y0, wraps)
    IN  IF y < 0 \/ y >= d.height
        THEN Txt(d, <<>>)
        ELSE StringLoop(Txt(d, <<>>), y, string, 1, x)

\* the accesses and the output of sevenseg_flush, its buffer being out[LCD_MAX_WIDTH]
FlushEvents(d) ==
    <<[Ev("memcpy", d.width) EXCEPT !.tag = "out", !.ok = d.width <= LCD_MAX_WIDTH],
      [Ev("out[]=", d.width) EXCEPT !.ok = d.width < LCD_MAX_WIDTH],
      [Ev("printf", 13) EXCEPT !.tag = "\\r"]>>
    \o [j \in 1..(2 * d.width) |->
          LET i == (j - 1) \div 2
          IN  IF j % 2 = 1
              THEN [Ev("out[]", i) EXCEPT !.ok = i < LCD_MAX_WIDTH]
              ELSE [Ev("printf", map_to_seg7(d.framebuf[i + 1])) EXCEPT !.tag = "%02x "]]

\* the first access of a flush that leaves the buffer, 0 when there is none
FirstOutside(evs) ==
    LET bad == { i \in 1..Len(evs) : ~evs[i].ok }
    IN  IF bad = {} THEN 0 ELSE CHOOSE i \in bad : \A j \in bad : i <= j

\* an access outside out[] is undefined: the call either carries on as if the
\* buffer were large enough, or the process dies at that access
sevenseg_flush(d, dies) ==
    LET evs == FlushEvents(d)
        k == FirstOutside(evs)
    IN  IF k > 0 /\ dies
        THEN [d |-> d, bus |-> SubSeq(evs, 1, k), killed |-> TRUE]
        ELSE [d |-> d, bus |-> evs, killed |-> FALSE]

\* the strings of the model: "", "1", "12", "123", ...
Str(n) == [i \in 1..n |-> Digit(i)]
Strings == { Str(n) : n \in 0..MaxStrLen }

\* coordinates below 1, inside, and beyond a side of length n
Coords(n) == {INT_MIN, -1, 0, 1, n, n + 1, n + 2}

\* the outcomes of the decrements of x and y: two where one overflows
Overflows(x, y) == IF INT_MIN \in {x, y} THEN BOOLEAN ELSE {TRUE}

\* what the primary driver reports, and what the Size setting holds
PrimarySizes == {<<0, 0>>, <<2, 0>>, <<LCD_MAX_WIDTH + 1, 1>>}
SizeSettings == {SizeOf(2, DefaultWidth, DefaultHeight), SizeOf(2, 2, 2),
                 SizeOf(2, LCD_MAX_WIDTH, 1), SizeOf(2, LCD_MAX_WIDTH + 1, 1),
                 SizeOf(2, 2, LCD_MAX_HEIGHT + 1), SizeOf(2, 0, 2), SizeOf(1, 5, 0)}

TextRest == <<p, functions, no_more_errormsgs, call, sessions, seg>>

\* the session of the text driver is initialized and its process is running
Ready == drv.ready /\ ~tcall.killed

TextCall(op, x, y, s, ret) ==
    [op |-> op, x |-> x, y |-> y, s |-> s, ret |-> ret, killed |-> FALSE]

TextInit(reqW, reqH, size, ctype, privOk, fbOk) ==
    /\ ~drv.ready
    /\ LET r == sevenseg_init(reqW, reqH, size, ctype, privOk, fbOk)
       IN  /\ drv' = IF r.ret = 0 THEN r.d ELSE NoDrv
           /\ bus' = r.bus
           /\ tcall' = TextCall("init", r.d.width, r.d.height, <<>>, r.ret)
    /\ UNCHANGED TextRest

TextClose ==
    /\ Ready
    /\ drv' = NoDrv
    /\ bus' = <<>>
    /\ tcall' = TextCall("close", 0, 0, <<>>, 0)
    /\ UNCHANGED TextRest

TextClear ==
    /\ Ready
    /\ LET r == sevenseg_clear(drv)
       IN  /\ drv' = [r.d EXCEPT !.writes = 0]
           /\ bus' = r.bus
    /\ tcall' = TextCall("clear", 0, 0, <<>>, 0)
    /\ UNCHANGED TextRest

TextChr(x, y, c, wraps) ==
    /\ Ready
    /\ drv.writes < MaxWrites
    /\ LET r == sevenseg_chr(drv, x, y, c, wraps)
       IN  /\ drv' = [r.d EXCEPT !.writes = @ + 1]
           /\ bus' = r.bus
    /\ tcall' = TextCall("chr", x, y, <<c>>, 0)
    /\ UNCHANGED TextRest

TextString(x, y, string, wraps) ==
    /\ Ready
    /\ drv.writes < MaxWrites
    /\ LET r == sevenseg_string(drv, x, y, string, wraps)
       IN  /\ drv' = [r.d EXCEPT !.writes = @ + 1]
           /\ bus' = r.bus
    /\ tcall' = TextCall("string", x, y, string, 0)
    /\ UNCHANGED TextRest

TextFlush(dies) ==
    /\ Ready
    /\ LET r == sevenseg_flush(drv, dies)
       IN  /\ bus' = r.bus
           /\ tcall' = [TextCall("flush", 0, 0, <<>>, 0) EXCEPT !.killed = r.killed]
    /\ UNCHANGED drv
    /\ UNCHANGED TextRest

\* i2c_sevenseg_close called by a host that does not look at the session
CloseCall ==
    /\ call.op # "none"
    /\ LET r == i2c_sevenseg_close(p, Run(<<>>))
       IN  /\ p' = r.p
           /\ bus' = r.m.bus
           /\ no_more_errormsgs' = r.m.nme
    /\ call' = [op |-> "close", flags |-> "-", arg |-> 0, ret |-> 0]
    /\ UNCHANGED <<functions, sessions, seg, drv, tcall>>

----------------------------------------------------------------------------
(* Specifications *)

Flags == {"RS_INSTR", "RS_DATA"}
SampleBytes == {165, 60}

\* a loaded driver before its first sevenseg_init_i2c, any configuration
Init ==
    /\ \E pins \in PinMaps, invert \in {0, 1}, hasPin \in BOOLEAN, dly \in BOOLEAN :
           p = Config(pins, invert, hasPin, dly)
    /\ functions = "none"
    /\ no_more_errormsgs = FALSE
    /\ bus = <<>>
    /\ call = NoCall
    /\ sessions = 0
    /\ seg = NoSeg
    /\ drv = NoDrv
    /\ tcall = NoText

\* The session life cycle, on a bus whose device comes and goes
Next ==
    \/ InitI2C(FALSE, <<>>)
    \/ CanInit /\ \E acks \in Flaps(12) : InitI2C(TRUE, acks)
    \/ Live /\ \E flags \in Flags, ch \in SampleBytes, acks \in Flaps(6) :
                   SendData(flags, ch, acks)
    \/ Live /\ \E state \in {0, 1}, acks \in Flaps(1) : Backlight(state, acks)
    \/ Close

Spec == Init /\ [][Next]_vars

\* Initialization under every acknowledgement pattern of its twelve writes
InitInit ==
    /\ \E pins \in PinMaps, dly \in BOOLEAN : p = Config(pins, 0, TRUE, dly)
    /\ functions = "none"
    /\ no_more_errormsgs = FALSE
    /\ bus = <<>>
    /\ call = NoCall
    /\ sessions = 0
    /\ seg = NoSeg
    /\ drv = NoDrv
    /\ tcall = NoText

NextInit ==
    \/ InitI2C(FALSE, <<>>)
    \/ CanInit /\ \E acks \in AllAcks12 : InitI2C(TRUE, acks)
    \/ Close

SpecInit == InitInit /\ [][NextInit]_vars

\* One byte, any byte, through the line driver of an initialized session
NextByte ==
    \/ call.op = "none" /\ InitI2C(TRUE, [i \in 1..12 |-> TRUE])
    \/ call.op = "init" /\ \E state \in {0, 1} : Backlight(state, <<TRUE>>)
    \/ call.op \in {"init", "backlight"}
           /\ \E flags \in Flags, ch \in Byte, acks \in Flaps(6) :
                  SendData(flags, ch, acks)

SpecByte == InitInit /\ [][NextByte]_vars

\* flip_seg7 applied to any unsigned char, repeatedly
InitFlip ==
    /\ p = Config(CHOOSE pins \in PinMaps : pins.EN = 64, 0, TRUE, FALSE)
    /\ functions = "none"
    /\ no_more_errormsgs = FALSE
    /\ bus = <<>>
    /\ call = NoCall
    /\ sessions = 0
    /\ \E v \in Byte : seg = [in |-> v, val |-> v, n |-> 0]
    /\ drv = NoDrv
    /\ tcall = NoText

SpecFlip == InitFlip /\ [][Flip]_vars

\* The text driver: its session, and characters and strings at any position
NextText ==
    \/ \E req \in PrimarySizes, size \in SizeSettings, ctype \in {"i2c", "serial"},
          privOk \in BOOLEAN, fbOk \in BOOLEAN :
            TextInit(req[1], req[2], size, ctype, privOk, fbOk)
    \/ TextClose
    \/ TextClear
    \/ Ready /\ \E x \in Coords(drv.width), y \in Coords(drv.height) :
                    \E wraps \in Overflows(x, y) : TextChr(x, y, ChrA, wraps)
    \/ Ready /\ \E x \in Coords(drv.width), y \in Coords(drv.height), string \in Strings :
                    \E wraps \in Overflows(x, y) : TextString(x, y, string, wraps)
    \/ \E dies \in BOOLEAN : TextFlush(dies)

InitText ==
    /\ p = Config(CHOOSE pins \in PinMaps : TRUE, 0, TRUE, FALSE)
    /\ functions = "none"
    /\ no_more_errormsgs = FALSE
    /\ bus = <<>>
    /\ call = NoCall
    /\ sessions = 0
    /\ seg = NoSeg
    /\ drv = NoDrv
    /\ tcall = NoText

SpecText == InitText /\ [][NextText]_vars

\* sevenseg_init_i2c and i2c_sevenseg_close in any order
NextClose ==
    \/ InitI2C(FALSE, <<>>)
    \/ CanInit /\ \E acks \in Flaps(12) : InitI2C(TRUE, acks)
    \/ CloseCall

SpecClose == Init /\ [][NextClose]_vars

----------------------------------------------------------------------------
(* Reading the event sequence of a call *)

WritesOf(b) == SelectSeq(b, IsWrite)
WritePos(b) == { i \in 1..Len(b) : IsWrite(b[i]) }
FailedPos(b) == { i \in WritePos(b) : ~b[i].ok }

\* a line of the pin map is high in port byte v
High(v, line) == Test(v, line)

\* the nibble on the data lines D7..D4 of port byte v
Nibble(q, v) ==
      (IF High(v, q.i2c_line_D7) THEN 8 ELSE 0)
    + (IF High(v, q.i2c_line_D6) THEN 4 ELSE 0)
    + (IF High(v, q.i2c_line_D5) THEN 2 ELSE 0)
    + (IF High(v, q.i2c_line_D4) THEN 1 ELSE 0)

\* port byte v with the enable line forced low
EnableLow(q, v) == v - BitAnd(v, q.i2c_line_EN)

OpenOk(b) == \E i \in 1..Len(b) : b[i].k = "i2c_open" /\ b[i].ok
OpenFailed(b) == \E i \in 1..Len(b) : b[i].k = "i2c_open" /\ ~b[i].ok

\* the writes with the enable line high, and the k-th of them
EnPos(q, b) == { i \in WritePos(b) : High(b[i].v, q.i2c_line_EN) }
KthEn(q, b, k) ==
    CHOOSE i \in EnPos(q, b) : Cardinality({ j \in EnPos(q, b) : j <= i }) = k

\* the position of the first write after position i, Len(b) + 1 if none
NextWrite(b, i) ==
    IF \E j \in WritePos(b) : j > i
    THEN CHOOSE j \in WritePos(b) : j > i /\ \A x \in WritePos(b) : x > i => j <= x
    ELSE Len(b) + 1

\* the waits between the write at position j and the next write
WaitsAfter(b, j) == { b[x].v : x \in { y \in (j + 1)..(NextWrite(b, j) - 1) : IsPause(b[y]) } }

----------------------------------------------------------------------------
(* C1 .. C10 *)

\* C1: for every byte 0..255 and either frame kind, one i2c_sevenseg_senddata
\* call produces exactly 6 bus writes, and the D7..D4 lines of any write of
\* the first triplet as high nibble with those of any write of the second
\* triplet as low nibble give back the byte.
C1_SixWritesRebuildByte ==
    call.op = "senddata" =>
        LET w == WritesOf(bus)
        IN  /\ Len(w) = 6
            /\ \A i \in 1..3, j \in 4..6 :
                   16 * Nibble(p, w[i].v) + Nibble(p, w[j].v) = call.arg

C1_Witness ==
    /\ call = [op |-> "senddata", flags |-> "RS_DATA", arg |-> 165, ret |-> 0]
    /\ Len(WritesOf(bus)) = 6
    /\ Nibble(p, WritesOf(bus)[2].v) = 10
    /\ Nibble(p, WritesOf(bus)[5].v) = 5

\* C2: in every i2c_sevenseg_senddata call the high nibble goes out before
\* the low nibble, each as three consecutive writes with enable low, high,
\* low that differ in the enable line only.
C2_NibbleFraming ==
    call.op = "senddata" =>
        LET w == WritesOf(bus)
        IN  /\ Len(w) = 6
            /\ Nibble(p, w[1].v) = call.arg \div 16
            /\ Nibble(p, w[4].v) = call.arg % 16
            /\ \A t \in {0, 3} :
                   /\ ~High(w[t + 1].v, p.i2c_line_EN)
                   /\ High(w[t + 2].v, p.i2c_line_EN)
                   /\ ~High(w[t + 3].v, p.i2c_line_EN)
                   /\ EnableLow(p, w[t + 2].v) = w[t + 1].v
                   /\ w[t + 3].v = w[t + 1].v

C2_Witness ==
    /\ call.op = "senddata" /\ call.arg = 60 /\ call.flags = "RS_DATA"
    /\ p.backlight_bit # 0
    /\ p.delayBus
    /\ WritesOf(bus)[2].v = WritesOf(bus)[1].v + p.i2c_line_EN
    /\ Nibble(p, WritesOf(bus)[1].v) = 3
    /\ Nibble(p, WritesOf(bus)[6].v) = 12

\* the documented minimum waits after the five pulses, in microseconds
MinWait == <<15000, 5000, 100, 100, 100>>

\* C3: after a successful open the initialization raises enable exactly five
\* times: four times over exactly D4 and D5, then once over D5 alone; each
\* pulse is followed by its falling edge and then by a wait of at least
\* 15000, 5000, 100, 100, 100 microseconds, with delayBus set or clear.
C3_FivePulsesAndWaits ==
    (call.op = "init" /\ OpenOk(bus)) =>
        /\ Cardinality(EnPos(p, bus)) = 5
        /\ \A k \in 1..5 :
               LET i == KthEn(p, bus, k)
                   j == NextWrite(bus, i)
                   data == IF k <= 4 THEN BitOr(p.i2c_line_D4, p.i2c_line_D5)
                                     ELSE p.i2c_line_D5
               IN  /\ bus[i].v = BitOr(p.i2c_line_EN, data)
                   /\ j <= Len(bus)
                   /\ bus[j].v = data
                   /\ \E us \in WaitsAfter(bus, j) : us >= MinWait[k]

C3_Witness ==
    /\ call.op = "init" /\ OpenOk(bus)
    /\ p.delayBus
    /\ FailedPos(bus) # {}
    /\ Cardinality(EnPos(p, bus)) = 5
    /\ 15000 \in WaitsAfter(bus, NextWrite(bus, KthEn(p, bus, 1)))

\* C4 as claimed: i2c_sevenseg_backlight stores a bit that is off without a
\* backlight pin, set iff requested on when not inverted, set iff requested
\* off when inverted.
C4_TruthTableAsClaimed ==
    call.op = "backlight" =>
        ( (p.backlight_bit # 0) <=>
              /\ have_backlight_pin(p)
              /\ IF p.i2c_backlight_invert = 0 THEN call.arg # 0 ELSE call.arg = 0 )

\* C4 as amended: the stored bit is off without a backlight pin; with a pin
\* and not inverted it is set iff the requested state is off; with a pin and
\* inverted it is set iff the requested state is on; a set bit is i2c_line_BL.
C4_TruthTableOfCode ==
    call.op = "backlight" =>
        /\ p.backlight_bit \in {0, p.i2c_line_BL}
        /\ (p.backlight_bit # 0) <=>
              /\ have_backlight_pin(p)
              /\ IF p.i2c_backlight_invert = 0 THEN call.arg = 0 ELSE call.arg # 0

C4_Witness ==
    /\ call.op = "backlight" /\ call.arg = 1
    /\ have_backlight_pin(p) /\ p.i2c_backlight_invert = 0
    /\ p.backlight_bit = 0

\* C5: i2c_sevenseg_backlight issues exactly one bus write, carrying the bit
\* it has just stored; every write of a later i2c_sevenseg_senddata has the
\* backlight line equal to the stored bit, and senddata and close leave the
\* stored bit as the most recent backlight call computed it.
C5_BacklightLatched ==
    [][ /\ call'.op = "backlight" =>
              /\ Len(WritesOf(bus')) = 1
              /\ WritesOf(bus')[1].v = p'.backlight_bit
        /\ call'.op = "senddata" =>
              /\ p'.backlight_bit = p.backlight_bit
              /\ \A i \in WritePos(bus') :
                     BitAnd(bus'[i].v, p.i2c_line_BL) = p.backlight_bit
        /\ call'.op = "close" => p'.backlight_bit = p.backlight_bit ]_vars

C5_Witness ==
    /\ call.op = "senddata"
    /\ p.backlight_bit # 0
    /\ \A i \in WritePos(bus) : High(bus[i].v, p.i2c_line_BL)
    /\ Len(WritesOf(bus)) = 6

\* C6: when i2c_open gives no handle, sevenseg_init_i2c returns -1 and the
\* call performs no bus write, no pause and no common_init.
C6_OpenFailureStops ==
    (call.op = "init" /\ OpenFailed(bus)) =>
        /\ call.ret = -1
        /\ \A i \in 1..Len(bus) :
               ~IsWrite(bus[i]) /\ ~IsPause(bus[i]) /\ bus[i].k # "common_init"

C6_Witness ==
    /\ call.op = "init" /\ OpenFailed(bus)
    /\ call.ret = -1
    /\ p.i2c = "NULL"
    /\ sessions = 2

\* C7: once the open succeeds, sevenseg_init_i2c issues all twelve writes,
\* hands off to common_init as its last step and returns 0, whatever writes
\* fail; it returns an error only when the open failed.
C7_InitCompletes ==
    call.op = "init" =>
        /\ OpenOk(bus) =>
              /\ call.ret = 0
              /\ Len(WritesOf(bus)) = 12
              /\ bus[Len(bus)].k = "common_init"
              /\ Cardinality({ i \in 1..Len(bus) : bus[i].k = "common_init" }) = 1
        /\ call.ret # 0 => OpenFailed(bus)

C7_Witness ==
    /\ call.op = "init" /\ OpenOk(bus)
    /\ call.ret = 0
    /\ Cardinality(FailedPos(bus)) = 12
    /\ bus[Len(bus)].k = "common_init"

\* C8: over any sequence of bus writes, a failed write is reported at once,
\* at error level when no write failed before it and at debug level when one
\* did (so each consecutive further failure is at debug level); a successful
\* write is not reported, and nothing else is reported by i2c_out.
C8_ReportLevels ==
    /\ no_more_errormsgs = FALSE
    /\ [][ /\ \A i \in WritePos(bus') :
                 IF bus'[i].ok
                 THEN i < Len(bus') => ~IsDrvReport(bus'[i + 1])
                 ELSE /\ i < Len(bus')
                      /\ IsDrvReport(bus'[i + 1])
                      /\ bus'[i + 1].v = bus'[i].v
                      /\ bus'[i + 1].tag =
                            IF no_more_errormsgs \/ \E j \in FailedPos(bus') : j < i
                            THEN "RPT_DEBUG" ELSE "RPT_ERR"
           /\ \A i \in 1..Len(bus') :
                 IsDrvReport(bus'[i]) => i - 1 \in FailedPos(bus')
           /\ no_more_errormsgs' = (no_more_errormsgs \/ FailedPos(bus') # {}) ]_vars

C8_Witness ==
    /\ call.op = "init"
    /\ \E i, j, k \in 1..Len(bus) :
           /\ i < j /\ j < k
           /\ IsDrvReport(bus[i]) /\ bus[i].tag = "RPT_ERR"
           /\ j = i + 1 /\ IsWrite(bus[j]) /\ ~bus[j].ok
           /\ IsDrvReport(bus[k]) /\ bus[k].tag = "RPT_DEBUG"

\* the number of i2c_out calls a handler makes
WritesPerCall(op, b) ==
    CASE op = "init"      -> IF OpenOk(b) THEN 12 ELSE 0
      [] op = "senddata"  -> 6
      [] op = "backlight" -> 1
      [] OTHER            -> 0

\* C9 as claimed: a write that is not acknowledged makes i2c_out return an
\* error result to its caller.
C9_ErrorReturnedAsClaimed ==
    \A i \in FailedPos(bus) : bus[i].ret = "error"

\* C9 as amended: i2c_out returns nothing to its caller, also when the write
\* is not acknowledged; the failure is only reported, and the write is not
\* retried: every handler attempts each of its port bytes exactly once.
C9_NoResultNoRetry ==
    /\ \A i \in WritePos(bus) : bus[i].ret = "void"
    /\ \A i \in FailedPos(bus) : i < Len(bus) /\ IsDrvReport(bus[i + 1])
    /\ Len(WritesOf(bus)) = WritesPerCall(call.op, bus)

C9_Witness ==
    /\ call.op = "senddata"
    /\ Cardinality(FailedPos(bus)) = 3
    /\ Len(WritesOf(bus)) = 6
    /\ \A i \in WritePos(bus) : bus[i].ret = "void"

\* C10: flip_seg7 is an involution on the 7-bit segment patterns: applied
\* twice to a pattern below 128 it gives the pattern back.
C10_FlipInvolution ==
    (seg.n = 2 /\ seg.in < 128) => seg.val = seg.in

C10_Witness ==
    /\ seg.n = 2
    /\ seg.in = 119
    /\ seg.val = 119

----------------------------------------------------------------------------
(* C11 .. C20 *)

\* segment number s is lit in pattern v
Lit(v, s) == Test(v, 2^s)

\* C11: for every input pattern, all-zero and all-one included, flip_seg7
\* returns a pattern whose G bit is the input's G bit and whose A, B, C, D,
\* E, F bits are the input's D, E, F, A, B, C bits, with no other bit set.
C11_FlipSwapsPairs ==
    seg.n = 1 =>
        /\ Lit(seg.val, BIT_SEG7_G) = Lit(seg.in, BIT_SEG7_G)
        /\ Lit(seg.val, BIT_SEG7_A) = Lit(seg.in, BIT_SEG7_D)
        /\ Lit(seg.val, BIT_SEG7_B) = Lit(seg.in, BIT_SEG7_E)
        /\ Lit(seg.val, BIT_SEG7_C) = Lit(seg.in, BIT_SEG7_F)
        /\ Lit(seg.val, BIT_SEG7_D) = Lit(seg.in, BIT_SEG7_A)
        /\ Lit(seg.val, BIT_SEG7_E) = Lit(seg.in, BIT_SEG7_B)
        /\ Lit(seg.val, BIT_SEG7_F) = Lit(seg.in, BIT_SEG7_C)
        /\ seg.val \in 0..127

C11_Witness ==
    /\ seg.n = 1
    /\ seg.in = 2^BIT_SEG7_A + 2^BIT_SEG7_G + 128
    /\ seg.val = 2^BIT_SEG7_D + 2^BIT_SEG7_G

\* C12: in every port write of an i2c_sevenseg_senddata call the
\* register-select line is high if and only if the frame kind is data; for
\* an instruction it is low in all six writes.
C12_RegisterSelect ==
    call.op = "senddata" =>
        /\ Len(WritesOf(bus)) = 6
        /\ \A i \in WritePos(bus) :
               High(bus[i].v, p.i2c_line_RS) <=> (call.flags = "RS_DATA")

C12_Witness ==
    /\ call.op = "senddata" /\ call.flags = "RS_INSTR" /\ call.arg = 255
    /\ p.backlight_bit # 0
    /\ \A i \in WritePos(bus) : ~High(bus[i].v, p.i2c_line_RS)
    /\ Len(WritesOf(bus)) = 6

\* C13: on a display without a backlight pin i2c_sevenseg_backlight leaves
\* the stored bit clear for every requested state and both values of the
\* inversion flag, and no bus write of any call has the backlight line high.
C13_NoPinNoBacklight ==
    ~have_backlight_pin(p) =>
        /\ p.backlight_bit = 0
        /\ \A i \in WritePos(bus) : ~High(bus[i].v, p.i2c_line_BL)

C13_Witness ==
    /\ ~have_backlight_pin(p)
    /\ p.i2c_backlight_invert = 1
    /\ call.op = "backlight" /\ call.arg = 1
    /\ p.backlight_bit = 0
    /\ Len(WritesOf(bus)) = 1 /\ WritesOf(bus)[1].v = 0

\* the store events of a call, as the sequence of their indices
StoresOf(b) == SelectSeq(b, LAMBDA e : e.k = "framebuf[]=")

\* C14: sevenseg_chr and sevenseg_string store only inside the framebuffer:
\* a character at an in-range (x, y) goes to index (y-1)*width + (x-1), an
\* out-of-range character is skipped, and a string is clipped at the left
\* and the right border of its row, all other cells staying as they were.
C14_StoresInsideFramebuf ==
    [][ tcall'.op \in {"chr", "string"} =>
          LET w == drv.width
              h == drv.height
              s == tcall'.s
              x == tcall'.x
              y == tcall'.y
              \* the characters of s that fall on the grid, by their position in s
              hits == IF y \in 1..h
                      THEN { i \in 1..Len(s) : (x + i - 1) \in 1..w }
                      ELSE {}
              cell(i) == (y - 1) * w + (x + i - 1 - 1)
              cells == { cell(i) : i \in hits }
              st == StoresOf(bus')
          IN  /\ \A k \in 1..Len(st) : st[k].v \in 0..(w * h - 1)
              /\ { st[k].v : k \in 1..Len(st) } = cells
              /\ Len(st) = Cardinality(hits)
              /\ Len(drv'.framebuf) = w * h
              /\ \A i \in hits : drv'.framebuf[cell(i) + 1] = s[i]
              /\ \A c \in (0..(w * h - 1)) \ cells :
                     drv'.framebuf[c + 1] = drv.framebuf[c + 1]
              /\ drv'.width = w /\ drv'.height = h
      ]_vars

\* a string that starts left of the grid and ends right of it, clipped on both sides
C14_Witness ==
    /\ tcall.op = "string" /\ tcall.x = 0 /\ tcall.y = 2 /\ tcall.s = Str(4)
    /\ drv.width = 2 /\ drv.height = 2
    /\ drv.framebuf = <<Space, Space, Digit(2), Digit(3)>>
    /\ Len(StoresOf(bus)) = 2

\* C15 as claimed: 'A' written at (1,1) of a 20x4 grid and then flushed gives
\* one byte sequence of the line driver, six bus writes whose two nibbles are
\* the pattern of 'A' in the default table.
C15_FlushSendsPattern ==
    [][ ( /\ tcall.op = "chr" /\ tcall.x = 1 /\ tcall.y = 1 /\ tcall.s = <<ChrA>>
          /\ drv.width = DefaultWidth /\ drv.height = DefaultHeight
          /\ tcall'.op = "flush" )
        => /\ Len(WritesOf(bus')) = 6
           /\ 16 * Nibble(p, WritesOf(bus')[2].v) + Nibble(p, WritesOf(bus')[5].v)
                  = map_to_seg7(ChrA)
      ]_vars

\* the flush of that grid: the patterns of the first row go to standard
\* output, that of 'A' first, and the bus sees nothing
C15_Witness ==
    /\ tcall.op = "flush" /\ ~tcall.killed
    /\ drv.width = DefaultWidth /\ drv.height = DefaultHeight
    /\ drv.framebuf[1] = ChrA
    /\ WritesOf(bus) = <<>>
    /\ Len(SelectSeq(bus, LAMBDA e : e.k = "printf" /\ e.tag = "%02x ")) = DefaultWidth
    /\ bus[5].k = "printf" /\ bus[5].v = 119

\* the position of the k-th write of an event sequence
KthWrite(b, k) ==
    CHOOSE i \in WritePos(b) : Cardinality({ j \in WritePos(b) : j <= i }) = k

\* the number of pauses between the write at position j and the next write
PausesAfter(b, j) ==
    Cardinality({ y \in (j + 1)..(NextWrite(b, j) - 1) : IsPause(b[y]) })

\* C16 as claimed: with delayBus set there is a settle pause between every
\* two consecutive of the six writes of i2c_sevenseg_senddata, and with
\* delayBus clear there is no pause.
C16_PauseBetweenAllWrites ==
    call.op = "senddata" =>
        IF p.delayBus
        THEN \A k \in 1..5 : PausesAfter(bus, KthWrite(bus, k)) >= 1
        ELSE \A i \in 1..Len(bus) : ~IsPause(bus[i])

\* C16: with delayBus set i2c_sevenseg_senddata pauses 1 microsecond once
\* after the first and once after the second write of each nibble, four
\* times in all, and neither between the third and the fourth write nor
\* after the sixth; with delayBus clear it never pauses.
C16_PauseInsideEachPulse ==
    call.op = "senddata" =>
        IF p.delayBus
        THEN /\ \A k \in {1, 2, 4, 5} :
                    /\ PausesAfter(bus, KthWrite(bus, k)) = 1
                    /\ WaitsAfter(bus, KthWrite(bus, k)) = {1}
             /\ \A k \in {3, 6} : PausesAfter(bus, KthWrite(bus, k)) = 0
             /\ Len(SelectSeq(bus, IsPause)) = 4
        ELSE \A i \in 1..Len(bus) : ~IsPause(bus[i])

C16_Witness ==
    /\ call.op = "senddata" /\ call.arg = 165 /\ p.delayBus
    /\ Len(WritesOf(bus)) = 6
    /\ Len(SelectSeq(bus, IsPause)) = 4
    /\ PausesAfter(bus, KthWrite(bus, 3)) = 0

\* C17: a successful sevenseg_init_i2c calls common_init exactly once, as its
\* last step: after the four reset pulses, the mode-switch pulse that follows
\* them, its falling edge and its wait of at least 100 microseconds; enable
\* is raised for nothing but these five pulses, so no byte goes out in two
\* nibbles before the mode switch.
C17_CommonInitLast ==
    (call.op = "init" /\ OpenOk(bus)) =>
        LET ci == { i \in 1..Len(bus) : bus[i].k = "common_init" }
            rs == { i \in EnPos(p, bus) : Nibble(p, bus[i].v) = 3 }
            ms == { i \in EnPos(p, bus) : Nibble(p, bus[i].v) = 2 }
        IN  /\ Cardinality(ci) = 1
            /\ Cardinality(rs) = 4
            /\ Cardinality(ms) = 1
            /\ EnPos(p, bus) = rs \cup ms
            /\ \A i \in EnPos(p, bus) : ~High(bus[i].v, p.i2c_line_RS)
            /\ \A c \in ci, m \in ms :
                   /\ \A r \in rs : r < m
                   /\ \E f \in WritePos(bus), u \in 1..Len(bus) :
                          /\ m < f /\ f < u /\ u < c
                          /\ bus[f].v = p.i2c_line_D5
                          /\ IsPause(bus[u]) /\ bus[u].v >= 100
                   /\ c = Len(bus)
                   /\ bus[c].tag = "IF_4BIT"
                   /\ \A i \in WritePos(bus) : i < c

C17_Witness ==
    /\ call.op = "init" /\ call.ret = 0 /\ p.delayBus
    /\ Len(WritesOf(bus)) = 12
    /\ FailedPos(bus) # {}
    /\ bus[Len(bus)].k = "common_init"
    /\ IsPause(bus[Len(bus) - 1]) /\ bus[Len(bus) - 1].v = 100

\* the writes of a call that raise enable, the line being low before the call
RisingEdges(q, b) ==
    LET w == WritesOf(b)
    IN  { i \in 1..Len(w) : /\ High(w[i].v, q.i2c_line_EN)
                            /\ (i = 1 \/ ~High(w[i - 1].v, q.i2c_line_EN)) }

\* C18: once initialized, enable rises only inside i2c_sevenseg_senddata,
\* exactly twice per call; the one write of i2c_sevenseg_backlight has
\* enable, register select and the four data lines low; and every call that
\* writes leaves enable low.
C18_EnableOnlyInSendData ==
    LET w == WritesOf(bus)
    IN  /\ call.op = "senddata" => Cardinality(RisingEdges(p, bus)) = 2
        /\ call.op = "backlight" =>
               /\ RisingEdges(p, bus) = {}
               /\ Len(w) = 1
               /\ ~High(w[1].v, p.i2c_line_EN)
               /\ ~High(w[1].v, p.i2c_line_RS)
               /\ Nibble(p, w[1].v) = 0
        /\ (call.op \in {"init", "senddata", "backlight"} /\ Len(w) > 0) =>
               ~High(w[Len(w)].v, p.i2c_line_EN)
        /\ call.op = "close" => w = <<>>

C18_Witness ==
    /\ call.op = "backlight"
    /\ Len(WritesOf(bus)) = 1
    /\ WritesOf(bus)[1].v = p.i2c_line_BL
    /\ ~WritesOf(bus)[1].ok

\* C19 as claimed: whatever the order of sevenseg_init_i2c and
\* i2c_sevenseg_close calls, i2c_close is called on an open handle only: not
\* after an open that failed, and not a second time for one open.
C19_CloseOnlyOpenHandle ==
    \A i \in 1..Len(bus) : bus[i].k = "i2c_close" => bus[i].ok

\* i2c_sevenseg_close after an open that failed: i2c_close on the null handle
C19_Witness ==
    /\ call.op = "close" /\ p.i2c = "NULL" /\ functions = "none"
    /\ Len(bus) = 1 /\ bus[1].k = "i2c_close" /\ ~bus[1].ok

\* C20 as claimed: for every width sevenseg_init can leave, sevenseg_flush
\* touches its buffer out[LCD_MAX_WIDTH] at indices 0 .. LCD_MAX_WIDTH - 1
\* only, the terminator at index width included.
C20_FlushInsideOut ==
    tcall.op = "flush" =>
        \A i \in 1..Len(bus) :
            /\ bus[i].k = "memcpy" => bus[i].v <= LCD_MAX_WIDTH
            /\ bus[i].k \in {"out[]=", "out[]"} => bus[i].v \in 0..(LCD_MAX_WIDTH - 1)

\* a Size of LCD_MAX_WIDTH x 1 passes the validation, and the terminator of
\* the flush goes to out[LCD_MAX_WIDTH]
C20_Witness ==
    /\ tcall.op = "flush" /\ drv.width = LCD_MAX_WIDTH
    /\ bus[2].k = "out[]=" /\ bus[2].v = LCD_MAX_WIDTH

====
